---- MODULE Spec2Model ----
(***************************************************************************)
(* Draft Turn Engine of kronksturkeyclub (src/main.py): the DraftManager   *)
(* (snake order, add_pick, undo_last_pick, start/end), the RosterManager   *)
(* catalog filter, and the discord event handlers that drive them.         *)
(*                                                                         *)
(* Two specifications share the state:                                    *)
(*   Spec     the DraftManager's methods called in any order (the unit    *)
(*            the Pick Engine / Turn Sequencer contracts are about);       *)
(*   BotSpec  the bot: commands and on_reaction_add coroutines, which      *)
(*            interleave at their await points.                            *)
(***************************************************************************)
EXTENDS Integers, Sequences, FiniteSets, Bags, TLC

VARIABLES
    base_draft_order,       \* DraftManager.base_draft_order
    draft_order,            \* DraftManager.draft_order
    current_pick,           \* DraftManager.current_pick
    num_rounds,             \* DraftManager.num_rounds
    teams,                  \* DraftManager.teams: user id -> [players, team_name]
    all_picks,              \* DraftManager.all_picks
    is_active,              \* DraftManager.is_active
    channel_id,             \* DraftManager.channel_id
    drafted_players,        \* DraftManager.drafted_players
    current_draft_message,  \* DraftManager.current_draft_message
    current_position,       \* DraftManager.current_position
    last,                   \* the last DraftManager call: its name, argument, return value
    handlers,               \* in-flight on_reaction_add coroutines
    command,                \* the in-flight startdraft coroutine
    board_picks,            \* picks committed by events on the board current_draft_message names (2: two or more)
    resolved_event,         \* the select event last processed to the end
    players_by_position,    \* RosterManager.players_by_position
    board                   \* what the message current_draft_message names displays (BoardSpec)

dm_vars == <<base_draft_order, draft_order, current_pick, num_rounds, teams,
             all_picks, is_active, channel_id, drafted_players,
             current_draft_message, current_position>>

bot_vars == <<handlers, command, board_picks, resolved_event>>

vars == <<dm_vars, last, bot_vars, players_by_position, board>>

None == "None"

\* current_draft_message = None: message ids are numbers from 1
NoMessage == 0

\* no board displayed: there is no message, or its content is not followed
NoBoard == [position |-> None, players |-> <<>>]

\* what a commit and an undo change
pick_state == <<current_pick, all_picks, drafted_players, teams>>

----------------------------------------------------------------------------
(* Bounds and inputs *)

\* round counts passed to DraftManager.start_draft in Spec: 0..MaxRounds
MaxRounds == 3

\* on_reaction_add coroutines in flight at once
MaxHandlers == 2

\* message ids are 1..MaxMessages
MaxMessages == 3

\* OrderSpec follows a draft for its first MaxOrderPicks picks
MaxOrderPicks == 1

\* limits passed to get_top_available in TopSpec: 0..MaxLimit
MaxLimit == 3

\* BoardSpec follows a draft for its first MaxBoardPicks picks
MaxBoardPicks == 3

\* on_reaction_add coroutines in flight at once in LiveSpec
MaxLiveHandlers == 1

\* no select event processed to its end yet
NoEvent == [message |-> NoMessage, user |-> None, emoji |-> None]

\* user ids
Users == {"A", "B", "C"}

CHANNEL == "ch"

Range(s) == {s[i] : i \in DOMAIN s}

Reverse(s) == [i \in 1..Len(s) |-> s[Len(s) + 1 - i]]

\* the orderings start_draft is called with: users in any order, none repeated
Orders == {o \in UNION {[1..n -> Users] : n \in 0..Cardinality(Users)} :
             Cardinality(Range(o)) = Len(o)}

----------------------------------------------------------------------------
(* Strings: a string is a sequence of characters, so that str.lower() and  *)
(* the f-string that builds a player key are computed, not assumed.        *)

LowerChar(c) ==
    CASE c = "A" -> "a"
      [] c = "B" -> "b"
      [] c = "C" -> "c"
      [] c = "X" -> "x"
      [] OTHER -> c

str_lower(s) == [i \in DOMAIN s |-> LowerChar(s[i])]

player_key_exact(name, team) == name \o <<"|">> \o team

\* f"{player_name.lower()}|{player_team.lower()}"
player_key(name, team) == str_lower(name) \o <<"|">> \o str_lower(team)

\* the players DraftManager.add_pick is called with in Spec: four players
\* with three distinct keys ("a"/"A" of team "x"/"X" are the same player)
ApiPlayers ==
    { [name |-> <<"a">>, team |-> <<"x">>, position |-> "QB"],
      [name |-> <<"A">>, team |-> <<"X">>, position |-> "QB"],
      [name |-> <<"b">>, team |-> <<"x">>, position |-> "RB"],
      [name |-> <<"c">>, team |-> <<"x">>, position |-> "WR"] }

----------------------------------------------------------------------------
(* RosterManager and the emoji tables *)

\* limit=10 of get_top_available
TOP_LIMIT == 10

DEFAULT_ROUNDS == 5

NUMBER_EMOJIS == <<"1", "2", "3", "4", "5", "6", "7", "8", "9", "10">>

POSITION_EMOJIS == [football |-> "QB", runner |-> "RB", raised_hands |-> "WR", palms_up |-> "TE"]

number_index_zero(emoji) == 0

\* NUMBER_EMOJIS.index(emoji)
number_index(emoji) == (CHOOSE i \in DOMAIN NUMBER_EMOJIS : NUMBER_EMOJIS[i] = emoji) - 1

Player(name, team, position) == [name |-> name, team |-> team, position |-> position]

\* the roster file load_rosters reads, as RosterManager.players_by_position:
\* the file's players grouped by position, in file order.  Ten quarterbacks
\* are enough players for a draft of two users; the other positions are
\* empty boards.
FullRoster ==
    [QB |-> << Player(<<"a">>, <<"x">>, "QB"), Player(<<"b">>, <<"x">>, "QB"),
               Player(<<"c">>, <<"x">>, "QB"), Player(<<"d">>, <<"x">>, "QB"),
               Player(<<"e">>, <<"x">>, "QB"), Player(<<"f">>, <<"x">>, "QB"),
               Player(<<"g">>, <<"x">>, "QB"), Player(<<"h">>, <<"x">>, "QB"),
               Player(<<"i">>, <<"x">>, "QB"), Player(<<"j">>, <<"x">>, "QB") >>]

Rosters == {FullRoster}

\* load_rosters: the players of the file grouped by position, each group in
\* file order
load_rosters(file) ==
    [pos \in {file[i].position : i \in DOMAIN file} |->
        LET at_pos(p) == p.position = pos IN SelectSeq(file, at_pos)]

\* self.players_by_position.get(position, [])
players_at(position) ==
    IF position \in DOMAIN players_by_position THEN players_by_position[position] ELSE <<>>

Take(s, n) == SubSeq(s, 1, IF Len(s) < n THEN Len(s) ELSE n)

get_top_available_unfiltered(position, drafted, limit) ==
    Take(players_at(position), limit)

\* RosterManager.get_top_available
get_top_available(position, drafted, limit) ==
    LET available(p) == player_key(p.name, p.team) \notin drafted
    IN Take(SelectSeq(players_at(position), available), limit)

----------------------------------------------------------------------------
(* DraftManager *)

create_snake_order_forward(base, rounds) ==
    LET RECURSIVE build(_)
        build(k) == IF k = 0 THEN <<>> ELSE build(k - 1) \o base
    IN build(rounds)

\* DraftManager.create_snake_order: round_num in range(num_rounds), forward
\* when round_num is even, reversed when odd
create_snake_order(base, rounds) ==
    LET RECURSIVE build(_)
        build(k) ==
            IF k = 0 THEN <<>>
            ELSE build(k - 1) \o (IF (k - 1) % 2 = 0 THEN base ELSE Reverse(base))
    IN build(rounds)

get_current_user ==
    IF current_pick < Len(draft_order) THEN draft_order[current_pick + 1] ELSE None

get_next_user ==
    IF current_pick + 1 < Len(draft_order) THEN draft_order[current_pick + 2] ELSE None

get_current_round == (current_pick \div Len(base_draft_order)) + 1

\* the dict comprehension of start_draft: a later position overwrites an earlier one
initial_teams(order) ==
    [u \in Range(order) |->
        [players |-> <<>>,
         team_name |-> CHOOSE i \in DOMAIN order :
                          order[i] = u /\ \A j \in DOMAIN order : order[j] = u => j <= i]]

start_draft_drafted_kept == drafted_players

\* start_draft: self.drafted_players = set()
start_draft_drafted == {}

start_draft(order, rounds, channel) ==
    /\ base_draft_order' = order
    /\ num_rounds' = rounds
    /\ channel_id' = channel
    /\ is_active' = TRUE
    /\ current_pick' = 0
    /\ all_picks' = <<>>
    /\ drafted_players' = start_draft_drafted
    /\ current_position' = "QB"
    /\ draft_order' = create_snake_order(order, rounds)
    /\ teams' = initial_teams(order)
    /\ UNCHANGED current_draft_message

end_draft_clearing ==
    /\ is_active' = FALSE
    /\ channel_id' = None
    /\ current_draft_message' = NoMessage
    /\ all_picks' = <<>>
    /\ UNCHANGED <<base_draft_order, draft_order, current_pick, num_rounds, teams,
                   drafted_players, current_position>>

\* DraftManager.end_draft
end_draft ==
    /\ is_active' = FALSE
    /\ channel_id' = None
    /\ current_draft_message' = NoMessage
    /\ UNCHANGED <<base_draft_order, draft_order, current_pick, num_rounds, teams,
                   all_picks, drafted_players, current_position>>

ErrComplete == "Draft is complete!"
ErrDrafted == "has already been drafted!"

add_pick_key_exact(name, team) == player_key_exact(name, team)

\* the key add_pick tests and adds: player_key = f"{...lower()}|{...lower()}"
add_pick_key(name, team) == player_key(name, team)

add_pick_error_swapped(name, team) ==
    IF add_pick_key(name, team) \in drafted_players THEN ErrDrafted
    ELSE IF current_pick >= Len(draft_order) THEN ErrComplete
    ELSE None

\* the two early returns of add_pick, in the code's order
add_pick_error(name, team) ==
    IF current_pick >= Len(draft_order) THEN ErrComplete
    ELSE IF add_pick_key(name, team) \in drafted_players THEN ErrDrafted
    ELSE None

\* add_pick: self.current_pick += 1
add_pick_next_index == current_pick + 1

add_pick_user_id_first == draft_order[1]

\* add_pick: user_id = self.draft_order[self.current_pick]
add_pick_user_id == draft_order[current_pick + 1]

add_pick_number_count == Len(all_picks)

\* add_pick: 'pick_number': len(self.all_picks) + 1
add_pick_number == Len(all_picks) + 1

\* add_pick's return value: (user_id, None) or (None, error)
add_pick_result(name, team) ==
    IF add_pick_error(name, team) # None
    THEN <<None, add_pick_error(name, team)>>
    ELSE <<add_pick_user_id, None>>

add_pick(name, team, position) ==
    IF add_pick_result(name, team)[2] # None
    THEN UNCHANGED dm_vars
    ELSE LET user_id == add_pick_user_id
             pick_data == [player_name |-> name,
                           player_team |-> team,
                           position |-> position,
                           pick_number |-> add_pick_number,
                           round |-> get_current_round]
         IN /\ teams' = [teams EXCEPT ![user_id].players = Append(@, pick_data)]
            /\ all_picks' = Append(all_picks,
                                   [user_id |-> user_id,
                                    player_name |-> name,
                                    player_team |-> team,
                                    position |-> position,
                                    pick_number |-> pick_data.pick_number,
                                    round |-> pick_data.round])
            /\ drafted_players' = drafted_players \cup {add_pick_key(name, team)}
            /\ current_pick' = add_pick_next_index
            /\ UNCHANGED <<base_draft_order, draft_order, num_rounds, is_active,
                           channel_id, current_draft_message, current_position>>

undo_discard_none(last_pick) == drafted_players

\* undo_last_pick: self.drafted_players.discard(player_key)
undo_discard(last_pick) ==
    drafted_players \ {player_key(last_pick.player_name, last_pick.player_team)}

undo_team_players_kept(players, last_pick) == players

\* undo_last_pick: the user's players without the one of last_pick's pick_number
undo_team_players(players, last_pick) ==
    LET keep(p) == p.pick_number # last_pick.pick_number
    IN SelectSeq(players, keep)

undo_next_index_stuck == current_pick

\* undo_last_pick: self.current_pick -= 1
undo_next_index == current_pick - 1

undo_last_pick_result == all_picks # <<>>

undo_last_pick ==
    IF all_picks = <<>>
    THEN UNCHANGED dm_vars
    ELSE LET last_pick == all_picks[Len(all_picks)]
             user_id == last_pick.user_id
         IN /\ all_picks' = SubSeq(all_picks, 1, Len(all_picks) - 1)
            /\ teams' = [teams EXCEPT ![user_id].players = undo_team_players(@, last_pick)]
            /\ drafted_players' = undo_discard(last_pick)
            /\ current_pick' = undo_next_index
            /\ UNCHANGED <<base_draft_order, draft_order, num_rounds, is_active,
                           channel_id, current_draft_message, current_position>>

----------------------------------------------------------------------------
(* Spec: the DraftManager's methods, called in any order *)

\* DraftManager() and RosterManager() at the first start of the bot: there is
\* no draft_data.json yet, so load_data leaves the constructor's values
Init ==
    /\ base_draft_order = <<>>
    /\ draft_order = <<>>
    /\ current_pick = 0
    /\ num_rounds = 0
    /\ teams = [u \in {} |-> 0]
    /\ all_picks = <<>>
    /\ is_active = FALSE
    /\ channel_id = None
    /\ drafted_players = {}
    /\ current_draft_message = NoMessage
    /\ current_position = "QB"
    /\ last = [op |-> "init", arg |-> None, ret |-> None, before |-> None]
    /\ handlers = EmptyBag
    /\ command = "idle"
    /\ board_picks = 0
    /\ resolved_event = NoEvent
    /\ players_by_position \in Rosters
    /\ board = NoBoard

StartDraft ==
    \E order \in Orders, rounds \in 0..MaxRounds :
        /\ start_draft(order, rounds, CHANNEL)
        /\ last' = [op |-> "start_draft", arg |-> <<order, rounds>>, ret |-> None,
                    before |-> None]
        /\ UNCHANGED <<bot_vars, players_by_position, board>>

EndDraft ==
    /\ end_draft
    /\ last' = [op |-> "end_draft", arg |-> None, ret |-> None, before |-> None]
    /\ UNCHANGED <<bot_vars, players_by_position, board>>

AddPick ==
    \E p \in ApiPlayers :
        /\ add_pick(p.name, p.team, p.position)
        /\ last' = [op |-> "add_pick", arg |-> p,
                    ret |-> add_pick_result(p.name, p.team),
                    before |-> IF add_pick_error(p.name, p.team) = None
                               THEN pick_state ELSE None]
        /\ UNCHANGED <<bot_vars, players_by_position, board>>

UndoLastPick ==
    /\ undo_last_pick
    /\ last' = [op |-> "undo_last_pick", arg |-> [op |-> last.op, ret |-> last.ret],
                ret |-> undo_last_pick_result, before |-> None]
    /\ UNCHANGED <<bot_vars, players_by_position, board>>

Next == StartDraft \/ EndDraft \/ AddPick \/ UndoLastPick

Spec == Init /\ [][Next]_vars

----------------------------------------------------------------------------
(* BotSpec: the commands and the on_reaction_add coroutines.               *)
(*                                                                         *)
(* A coroutine runs without interruption from one await to the next; at an *)
(* await that waits for discord (send, edit, add_reaction, remove) any     *)
(* other coroutine may run.  Consecutive awaits between which the          *)
(* coroutine neither reads nor writes the DraftManager are one suspension, *)
(* and a coroutine whose remaining code does not touch the DraftManager    *)
(* is over.                                                                *)
(*                                                                         *)
(* Message ids are opaque and never reused by discord; the program only    *)
(* compares them for equality.  A new message gets the least id that no    *)
(* stored reference holds: a message nothing refers to can never again     *)
(* equal current_draft_message.                                            *)

\* the emojis users react with on any board
ReactedEmojis == {NUMBER_EMOJIS[1], "football", "runner"}

\* the users who react: the two a !startdraft mentions, so that at any time
\* of a draft one is on the clock and the other is not
Reactors == {"A", "B"}

\* the users a !startdraft mentions
Mentions == {<<>>, <<"A", "B">>, <<"B", "A">>}

\* the rounds argument of !startdraft: none, or 3
RoundsArgs == {<<>>, <<3>>}

MessageIds == 1..MaxMessages

Referenced ==
    {current_draft_message} \cup {h.message : h \in BagToSet(handlers)}

\* a message that is neither current_draft_message nor the message of a
\* coroutine in flight: an old board, whose id no new message gets
Superseded == MaxMessages + 1

\* the resolved event once current_draft_message is (or becomes) current
Supersede(event, current) ==
    IF event.message = current \/ event.message = NoMessage THEN event
    ELSE [event EXCEPT !.message = Superseded]

\* the messages events arrive on
EventMessages == (Referenced \ {NoMessage}) \cup {Superseded}

HasFreshMessage == \E m \in MessageIds : m \notin Referenced

FreshMessage ==
    CHOOSE m \in MessageIds : m \notin Referenced /\ \A k \in MessageIds : k \notin Referenced => m <= k

Suspended(pc, message, user, emoji) ==
    [pc |-> pc, message |-> message, user |-> user, emoji |-> emoji]

CanSuspend == BagCardinality(handlers) < MaxHandlers

is_users_turn_any(user) == TRUE

\* on_reaction_add: str(user.id) == draft_manager.get_current_user()
is_users_turn(user) == user = get_current_user

\* on_reaction_add: draft_manager.current_draft_message != reaction.message.id
is_stale(message) == current_draft_message # message

\* what on_reaction_add does with an event, up to its first await
reaction_outcome(message, user, emoji) ==
    IF ~is_active THEN "Inactive"
    ELSE IF is_stale(message) THEN "Stale"
    ELSE IF ~is_users_turn(user) THEN "WrongTurn"
    ELSE IF emoji \in DOMAIN POSITION_EMOJIS THEN "switched"
    ELSE IF emoji \in Range(NUMBER_EMOJIS) THEN
        LET available_players == get_top_available(current_position, drafted_players, TOP_LIMIT)
            player_index == number_index(emoji)
        IN IF player_index >= Len(available_players) THEN "InvalidSelection"
           ELSE LET selected_player == available_players[player_index + 1]
                IN IF add_pick_error(selected_player.name, selected_player.team) # None
                   THEN add_pick_error(selected_player.name, selected_player.team)
                   ELSE "picked"
    ELSE "ignored"

Event(message, user, emoji) == [message |-> message, user |-> user, emoji |-> emoji]

\* the record of a delivered event: whether it repeats the event last
\* processed to the end, whether it came from the current board, whether its
\* user was on the clock, what the handler answered, and whether the draft
\* or the coroutines in flight changed
Outcome(message, user, emoji) ==
    [op |-> "on_reaction_add",
     arg |-> [replay |-> Event(message, user, emoji) = resolved_event,
              current |-> message = current_draft_message,
              on_clock |-> user = get_current_user,
              changed |-> <<dm_vars, bot_vars>>' # <<dm_vars, bot_vars>>],
     ret |-> reaction_outcome(message, user, emoji),
     before |-> None]

switch_position_and_advance(emoji) ==
    /\ current_position' = POSITION_EMOJIS[emoji]
    /\ current_pick' = current_pick + 1
    /\ UNCHANGED <<base_draft_order, draft_order, num_rounds, teams, all_picks,
                   is_active, channel_id, drafted_players, current_draft_message>>

\* on_reaction_add: draft_manager.current_position = POSITION_EMOJIS[emoji];
\* the board's edit and the reactions that follow write nothing
switch_position(emoji) ==
    /\ current_position' = POSITION_EMOJIS[emoji]
    /\ UNCHANGED <<base_draft_order, draft_order, current_pick, num_rounds,
                   teams, all_picks, is_active, channel_id, drafted_players,
                   current_draft_message>>

\* on_reaction_add, from the event's delivery to the first await
ReactionAdd(message, user, emoji) ==
    /\ UNCHANGED <<players_by_position, board>>
    /\ LET outcome == reaction_outcome(message, user, emoji)
       IN CASE outcome = "switched" ->
                 /\ switch_position(emoji)
                 /\ UNCHANGED bot_vars
            [] outcome = "picked" ->
                 LET selected_player ==
                        get_top_available(current_position, drafted_players,
                                          TOP_LIMIT)[number_index(emoji) + 1]
                 IN /\ CanSuspend
                    /\ add_pick(selected_player.name, selected_player.team,
                                selected_player.position)
                    /\ board_picks' = IF board_picks = 0 THEN 1 ELSE 2
                    /\ handlers' = handlers (+) SetToBag({Suspended("announce", message, user, emoji)})
                    /\ UNCHANGED <<command, resolved_event>>
            [] OTHER ->
                 /\ UNCHANGED dm_vars
                 /\ UNCHANGED bot_vars
    /\ last' = Outcome(message, user, emoji)

\* the players the board of the current position lists
listed_players == get_top_available(current_position, drafted_players, TOP_LIMIT)

\* a user reacts with a number, a position, or (on a board that lists fewer
\* than ten players) the tenth number
OnReactionAdd ==
    \E emoji \in IF Len(listed_players) < Len(NUMBER_EMOJIS)
                  THEN ReactedEmojis \cup {NUMBER_EMOJIS[10]}
                  ELSE ReactedEmojis :
        \E message \in EventMessages, user \in Reactors :
            ReactionAdd(message, user, emoji)

\* the record of a step other than the delivery of an event
Step(op, ret) == [op |-> op, arg |-> None, ret |-> ret, before |-> None]

Resume(h, pc) == (handlers (-) SetToBag({h})) (+) SetToBag({[h EXCEPT !.pc = pc]})

Return(h) == handlers (-) SetToBag({h})

\* the select event a coroutine that ran to its end has processed
Processed(h) == Event(h.message, h.user, h.emoji)

\* after the pick's announcement is sent: the completeness test, then either
\* the send of the completion message or the reset to QB and the send of the
\* next board
AnnounceSent(h) ==
    /\ UNCHANGED <<players_by_position, board>>
    /\ h.pc = "announce"
    /\ IF current_pick >= Len(draft_order)
       THEN /\ handlers' = Resume(h, "complete_send")
            /\ UNCHANGED dm_vars
       ELSE /\ current_position' = "QB"
            /\ handlers' = Resume(h, "board_send")
            /\ UNCHANGED <<base_draft_order, draft_order, current_pick, num_rounds,
                           teams, all_picks, is_active, channel_id, drafted_players,
                           current_draft_message>>
    /\ last' = Step("announce_sent", None)
    /\ UNCHANGED <<command, board_picks, resolved_event>>

\* after the completion message is sent: is_active = False, save, return
CompleteSent(h) ==
    /\ UNCHANGED <<players_by_position, board>>
    /\ h.pc = "complete_send"
    /\ is_active' = FALSE
    /\ handlers' = Return(h)
    /\ resolved_event' = Supersede(Processed(h), current_draft_message)
    /\ UNCHANGED <<base_draft_order, draft_order, current_pick, num_rounds, teams,
                   all_picks, channel_id, drafted_players, current_draft_message,
                   current_position>>
    /\ last' = Step("complete_sent", None)
    /\ UNCHANGED <<command, board_picks>>

\* the next board is sent and has its reactions:
\* current_draft_message = new_message.id, then the ping of the next user
BoardSent(h) ==
    /\ UNCHANGED <<players_by_position, board>>
    /\ h.pc = "board_send"
    /\ HasFreshMessage
    /\ current_draft_message' = FreshMessage
    /\ board_picks' = 0
    /\ handlers' = Return(h)
    /\ resolved_event' = Supersede(Processed(h), current_draft_message')
    /\ UNCHANGED <<base_draft_order, draft_order, current_pick, num_rounds, teams,
                   all_picks, is_active, channel_id, drafted_players, current_position>>
    /\ last' = Step("board_sent", None)
    /\ UNCHANGED command

OnAnnounceSent == \E h \in BagToSet(handlers) : AnnounceSent(h)

OnCompleteSent == \E h \in BagToSet(handlers) : CompleteSent(h)

OnBoardSent == \E h \in BagToSet(handlers) : BoardSent(h)

\* !startdraft, up to the send of the announcement
StartDraftCommand(rounds_arg, mentions) ==
    /\ UNCHANGED <<players_by_position, board>>
    /\ command = "idle"
    /\ LET draft_order_arg == IF mentions # <<>> THEN mentions ELSE base_draft_order
       IN IF rounds_arg # <<>> /\ rounds_arg[1] # DEFAULT_ROUNDS
          THEN /\ last' = Step("startdraft", "RoundsFixed")
               /\ UNCHANGED <<dm_vars, bot_vars>>
          ELSE IF Len(draft_order_arg) < 2
          THEN /\ last' = Step("startdraft", "NeedTwoManagers")
               /\ UNCHANGED <<dm_vars, bot_vars>>
          ELSE /\ start_draft(draft_order_arg, DEFAULT_ROUNDS, CHANNEL)
               /\ command' = "board_send"
               /\ last' = Step("startdraft", "started")
               /\ UNCHANGED <<handlers, board_picks, resolved_event>>

\* the announcement and the first board are sent, the board has its
\* reactions: current_draft_message = message.id
StartBoardSent ==
    /\ UNCHANGED <<players_by_position, board>>
    /\ command = "board_send"
    /\ HasFreshMessage
    /\ current_draft_message' = FreshMessage
    /\ command' = "idle"
    /\ board_picks' = 0
    /\ resolved_event' = Supersede(resolved_event, current_draft_message')
    /\ UNCHANGED <<base_draft_order, draft_order, current_pick, num_rounds, teams,
                   all_picks, is_active, channel_id, drafted_players, current_position>>
    /\ last' = Step("startdraft_board_sent", None)
    /\ UNCHANGED handlers

OnStartDraft ==
    \E rounds_arg \in RoundsArgs, mentions \in Mentions :
        StartDraftCommand(rounds_arg, mentions)

\* !enddraft
EndDraftCommand ==
    /\ UNCHANGED <<players_by_position, board>>
    /\ IF ~is_active
       THEN /\ last' = Step("enddraft", "NoActiveDraft")
            /\ UNCHANGED <<dm_vars, board_picks, resolved_event>>
       ELSE /\ end_draft
            /\ board_picks' = 0
            /\ resolved_event' = Supersede(resolved_event, NoMessage)
            /\ last' = Step("enddraft", "ended")
    /\ UNCHANGED <<handlers, command>>

BotNext ==
    \/ OnReactionAdd
    \/ OnAnnounceSent
    \/ OnCompleteSent
    \/ OnBoardSent
    \/ OnStartDraft
    \/ StartBoardSent
    \/ EndDraftCommand

BotSpec == Init /\ [][BotNext]_vars

----------------------------------------------------------------------------
(* OrderSpec: BotSpec with !setdraftorder, for the first MaxOrderPicks     *)
(* picks of a draft.  No draft of five rounds completes within these       *)
(* picks, so the completion step of on_reaction_add is not among its       *)
(* actions.                                                                *)

\* the users a !setdraftorder mentions
OrderMentions == {<<>>, <<"A">>, <<"A", "B", "C">>}

\* set_draft_order: draft_manager.base_draft_order = draft_order
set_draft_order(mentions) == mentions

\* !setdraftorder: the two rejections, or the assignment and save_data
SetDraftOrderCommand(mentions) ==
    /\ UNCHANGED <<players_by_position, board>>
    /\ IF mentions = <<>>
       THEN /\ last' = Step("setdraftorder", "NoMentions")
            /\ UNCHANGED base_draft_order
       ELSE IF Len(mentions) < 2
       THEN /\ last' = Step("setdraftorder", "NeedTwoManagers")
            /\ UNCHANGED base_draft_order
       ELSE /\ last' = Step("setdraftorder", "saved")
            /\ base_draft_order' = set_draft_order(mentions)
    /\ UNCHANGED <<draft_order, current_pick, num_rounds, teams, all_picks, is_active,
                   channel_id, drafted_players, current_draft_message,
                   current_position>>
    /\ UNCHANGED bot_vars

OnSetDraftOrder == \E mentions \in OrderMentions : SetDraftOrderCommand(mentions)

OrderReactionAdd == OnReactionAdd /\ current_pick' <= MaxOrderPicks

OrderNext ==
    \/ OrderReactionAdd
    \/ OnAnnounceSent
    \/ OnBoardSent
    \/ OnStartDraft
    \/ StartBoardSent
    \/ EndDraftCommand
    \/ OnSetDraftOrder

OrderSpec == Init /\ [][OrderNext]_vars

----------------------------------------------------------------------------
(* BoardSpec: the first picks of a draft, with what the boards display.    *)
(* Spec, BotSpec and OrderSpec do not follow the content of the messages   *)
(* (board stays NoBoard there).  Here every point where a board is         *)
(* rendered, sent or edited is a step of its own: create_draft_board runs  *)
(* without suspension, and the message shows the embed once the send or    *)
(* the edit that carries it is done.                                       *)

\* the roster file of BoardSpec: three quarterbacks and two running backs
BoardFile ==
    << Player(<<"a">>, <<"x">>, "QB"), Player(<<"b">>, <<"x">>, "RB"),
       Player(<<"c">>, <<"x">>, "QB"), Player(<<"d">>, <<"x">>, "QB"),
       Player(<<"e">>, <<"x">>, "RB") >>

\* the emojis users react with in BoardSpec
BoardEmojis == {NUMBER_EMOJIS[1], NUMBER_EMOJIS[2], "football", "runner"}

\* create_draft_board: the position in the title and the players listed
\* under the numbers ("No ... Available" lists none)
create_draft_board(position) ==
    [position |-> position,
     players |-> get_top_available(position, drafted_players, TOP_LIMIT)]

\* a suspended coroutine that holds an embed it rendered
Rendered(pc, message, user, emoji, embed) ==
    [pc |-> pc, message |-> message, user |-> user, emoji |-> emoji, embed |-> embed]

\* the player the board displays at the number of an emoji: a sequence of
\* one player, or of none
shown_player(emoji) ==
    IF emoji \in Range(NUMBER_EMOJIS) /\ number_index(emoji) < Len(board.players)
    THEN <<board.players[number_index(emoji) + 1]>>
    ELSE <<>>

BoardInit ==
    /\ base_draft_order = <<>>
    /\ draft_order = <<>>
    /\ current_pick = 0
    /\ num_rounds = 0
    /\ teams = [u \in {} |-> 0]
    /\ all_picks = <<>>
    /\ is_active = FALSE
    /\ channel_id = None
    /\ drafted_players = {}
    /\ current_draft_message = NoMessage
    /\ current_position = "QB"
    /\ last = [op |-> "init", arg |-> None, ret |-> None, before |-> None]
    /\ handlers = EmptyBag
    /\ command = "idle"
    /\ board_picks = 0
    /\ resolved_event = NoEvent
    /\ players_by_position = load_rosters(BoardFile)
    /\ board = NoBoard

\* !startdraft @A @B, the first of the run, up to the send of the announcement
BoardStartDraft ==
    /\ command = "idle"
    /\ draft_order = <<>>
    /\ start_draft(<<"A", "B">>, DEFAULT_ROUNDS, CHANNEL)
    /\ command' = "announce_send"
    /\ last' = Step("startdraft", "started")
    /\ UNCHANGED <<handlers, board_picks, resolved_event, players_by_position, board>>

\* !startdraft once the announcement is sent: create_draft_board(ctx, 'QB'),
\* up to the send of the board
BoardStartAnnounced ==
    /\ command = "announce_send"
    /\ command' = "board_send"
    /\ handlers' = handlers (+) SetToBag({Rendered("start_board_send", NoMessage, None,
                                                   None, create_draft_board("QB"))})
    /\ last' = Step("startdraft_announced", None)
    /\ UNCHANGED <<dm_vars, board_picks, resolved_event, players_by_position, board>>

\* !startdraft once the board is sent and has its reactions:
\* current_draft_message = message.id
BoardStartBoardSent(h) ==
    /\ h.pc = "start_board_send"
    /\ HasFreshMessage
    /\ current_draft_message' = FreshMessage
    /\ board' = h.embed
    /\ command' = "idle"
    /\ handlers' = Return(h)
    /\ last' = Step("startdraft_board_sent", None)
    /\ UNCHANGED <<base_draft_order, draft_order, current_pick, num_rounds, teams,
                   all_picks, is_active, channel_id, drafted_players, current_position>>
    /\ UNCHANGED <<board_picks, resolved_event, players_by_position>>

\* on_reaction_add, from the event's delivery to the first await: the edit
\* of the board after a switch, the announcement after a pick.  The record
\* of the step holds the player displayed at the number and the player
\* committed.
BoardReactionAdd(message, user, emoji) ==
    LET outcome == reaction_outcome(message, user, emoji)
    IN /\ CASE outcome = "switched" ->
                 /\ CanSuspend
                 /\ switch_position(emoji)
                 /\ handlers' = handlers (+) SetToBag({Rendered("edit", message, user, emoji,
                                         create_draft_board(POSITION_EMOJIS[emoji]))})
                 /\ last' = [op |-> "on_reaction_add",
                             arg |-> [shown |-> <<>>, committed |-> <<>>],
                             ret |-> outcome, before |-> None]
            [] outcome = "picked" ->
                 LET selected_player ==
                        get_top_available(current_position, drafted_players,
                                          TOP_LIMIT)[number_index(emoji) + 1]
                 IN /\ CanSuspend
                    /\ current_pick < MaxBoardPicks
                    /\ add_pick(selected_player.name, selected_player.team,
                                selected_player.position)
                    /\ handlers' = handlers (+) SetToBag({Rendered("announce", message, user,
                                                                   emoji, NoBoard)})
                    /\ last' = [op |-> "on_reaction_add",
                                arg |-> [shown |-> shown_player(emoji),
                                         committed |-> <<selected_player>>],
                                ret |-> outcome, before |-> None]
            [] OTHER ->
                 /\ UNCHANGED <<dm_vars, handlers>>
                 /\ last' = [op |-> "on_reaction_add",
                             arg |-> [shown |-> <<>>, committed |-> <<>>],
                             ret |-> outcome, before |-> None]
       /\ UNCHANGED <<command, board_picks, resolved_event, players_by_position, board>>

OnBoardReactionAdd ==
    \E message \in EventMessages, user \in Reactors, emoji \in BoardEmojis :
        BoardReactionAdd(message, user, emoji)

\* after a switch: the edit is done and the message shows the embed of the
\* new position; the reactions that follow write nothing
BoardEdited(h) ==
    /\ h.pc = "edit"
    /\ board' = IF h.message = current_draft_message THEN h.embed ELSE board
    /\ handlers' = Return(h)
    /\ last' = Step("board_edited", None)
    /\ UNCHANGED <<dm_vars, command, board_picks, resolved_event, players_by_position>>

\* after the pick's announcement is sent: no draft is complete within
\* MaxBoardPicks picks, so the reset to QB and create_draft_board(channel,
\* 'QB'), up to the send of the next board
BoardAnnounceSent(h) ==
    /\ h.pc = "announce"
    /\ current_pick < Len(draft_order)
    /\ current_position' = "QB"
    /\ handlers' = (handlers (-) SetToBag({h}))
                      (+) SetToBag({Rendered("board_send", h.message, h.user, h.emoji,
                                             create_draft_board("QB"))})
    /\ last' = Step("announce_sent", None)
    /\ UNCHANGED <<base_draft_order, draft_order, current_pick, num_rounds,
                   teams, all_picks, is_active, channel_id, drafted_players,
                   current_draft_message>>
    /\ UNCHANGED <<command, board_picks, resolved_event, players_by_position, board>>

\* the next board is sent and has its reactions:
\* current_draft_message = new_message.id
BoardBoardSent(h) ==
    /\ h.pc = "board_send"
    /\ HasFreshMessage
    /\ current_draft_message' = FreshMessage
    /\ board' = h.embed
    /\ handlers' = Return(h)
    /\ last' = Step("board_sent", None)
    /\ UNCHANGED <<base_draft_order, draft_order, current_pick, num_rounds, teams,
                   all_picks, is_active, channel_id, drafted_players, current_position>>
    /\ UNCHANGED <<command, board_picks, resolved_event, players_by_position>>

OnBoardStartBoardSent == \E h \in BagToSet(handlers) : BoardStartBoardSent(h)

OnBoardEdited == \E h \in BagToSet(handlers) : BoardEdited(h)

OnBoardAnnounceSent == \E h \in BagToSet(handlers) : BoardAnnounceSent(h)

OnBoardBoardSent == \E h \in BagToSet(handlers) : BoardBoardSent(h)

BoardNext ==
    \/ BoardStartDraft
    \/ BoardStartAnnounced
    \/ OnBoardStartBoardSent
    \/ OnBoardReactionAdd
    \/ OnBoardEdited
    \/ OnBoardAnnounceSent
    \/ OnBoardBoardSent

BoardSpec == BoardInit /\ [][BoardNext]_vars

----------------------------------------------------------------------------
(* LiveSpec: the bot under fair scheduling.  A coroutine suspended at an   *)
(* await is resumed once discord has answered, and the user on the clock   *)
(* keeps reacting with a number that selects a player for as long as such  *)
(* a reaction is possible.  Nothing makes anybody send a command.  Users   *)
(* do not leave the QB board, which lists a player for every slot of a     *)
(* draft of two users.                                                     *)

\* the emojis users react with in LiveSpec
LiveEmojis == {NUMBER_EMOJIS[1], "football"}

LiveReactionAdd ==
    \E message \in EventMessages, user \in Reactors, emoji \in LiveEmojis :
        /\ ReactionAdd(message, user, emoji)
        /\ BagCardinality(handlers') <= MaxLiveHandlers

\* a select event that commits a pick
ValidSelect == LiveReactionAdd /\ last'.ret = "picked"

LiveNext ==
    \/ LiveReactionAdd
    \/ OnAnnounceSent
    \/ OnCompleteSent
    \/ OnBoardSent
    \/ OnStartDraft
    \/ StartBoardSent
    \/ EndDraftCommand

LiveSpec ==
    /\ Init
    /\ [][LiveNext]_vars
    /\ WF_vars(ValidSelect)
    /\ WF_vars(OnAnnounceSent)
    /\ WF_vars(OnCompleteSent)
    /\ WF_vars(OnBoardSent)
    /\ WF_vars(StartBoardSent)

----------------------------------------------------------------------------
(* TopSpec: RosterManager.get_top_available, called with any position, any *)
(* set of drafted keys and any limit on the rosters of several files       *)

\* roster files: none, and two with quarterbacks and running backs mixed;
\* the second has a player twice, in different case
TopFiles ==
    { <<>>,
      << Player(<<"a">>, <<"x">>, "QB"), Player(<<"b">>, <<"x">>, "RB"),
         Player(<<"C">>, <<"X">>, "QB"), Player(<<"d">>, <<"x">>, "QB"),
         Player(<<"e">>, <<"x">>, "QB") >>,
      << Player(<<"A">>, <<"x">>, "QB"), Player(<<"c">>, <<"x">>, "QB"),
         Player(<<"a">>, <<"X">>, "QB"), Player(<<"b">>, <<"x">>, "RB"),
         Player(<<"d">>, <<"x">>, "RB") >> }

\* the keys a set of drafted players holds: lower-cased keys of add_pick
TopKeys == {player_key(<<n>>, <<"x">>) : n \in {"a", "c", "d"}}

\* the positions asked for: two the files have and one they have not
TopPositions == {"QB", "RB", "TE"}

TopInit ==
    /\ base_draft_order = <<>>
    /\ draft_order = <<>>
    /\ current_pick = 0
    /\ num_rounds = 0
    /\ teams = [u \in {} |-> 0]
    /\ all_picks = <<>>
    /\ is_active = FALSE
    /\ channel_id = None
    /\ drafted_players = {}
    /\ current_draft_message = NoMessage
    /\ current_position = "QB"
    /\ last = [op |-> "init", arg |-> None, ret |-> None, before |-> None]
    /\ handlers = EmptyBag
    /\ command = "idle"
    /\ board_picks = 0
    /\ resolved_event = NoEvent
    /\ players_by_position \in {load_rosters(file) : file \in TopFiles}
    /\ board = NoBoard

TopAvailable ==
    \E position \in TopPositions, drafted \in SUBSET TopKeys, limit \in 0..MaxLimit :
        /\ last' = [op |-> "get_top_available",
                    arg |-> [position |-> position, drafted |-> drafted, limit |-> limit],
                    ret |-> get_top_available(position, drafted, limit),
                    before |-> None]
        /\ UNCHANGED <<dm_vars, bot_vars, players_by_position, board>>

TopNext == TopAvailable

TopSpec == TopInit /\ [][TopNext]_vars

----------------------------------------------------------------------------
(* Properties of the DraftManager, checked under Spec *)

\* the identity key of a recorded pick: name and team, lower-cased
IdentityKey(p) == <<str_lower(p.player_name), str_lower(p.player_team)>>

JoinedKey(p) == str_lower(p.player_name) \o <<"|">> \o str_lower(p.player_team)

IsAddPick == last'.op = "add_pick"

IsUndo == last'.op = "undo_last_pick"

NoKeyTwice ==
    \A i, j \in DOMAIN all_picks :
        IdentityKey(all_picks[i]) = IdentityKey(all_picks[j]) => i = j

\* C2 as stated: an add_pick whose key (name, team), compared
\* case-insensitively, is already in drafted_players returns the
\* already-drafted error and leaves current_pick, all_picks, teams and
\* drafted_players unchanged; and no identity key is twice in all_picks.
C2_AsStated ==
    [][/\ (IsAddPick /\ JoinedKey([player_name |-> last'.arg.name,
                                   player_team |-> last'.arg.team]) \in drafted_players)
          => (last'.ret = <<None, ErrDrafted>> /\ UNCHANGED pick_state)
       /\ NoKeyTwice']_vars

\* C2 amended: an add_pick whose key is already in drafted_players fails and
\* leaves current_pick, all_picks, teams and drafted_players unchanged; the
\* error is the already-drafted error while slots remain (current_pick <
\* len(draft_order)) and the draft-complete error otherwise; and no identity
\* key is twice in all_picks.
C2_DuplicateRejected ==
    [][/\ (IsAddPick /\ JoinedKey([player_name |-> last'.arg.name,
                                   player_team |-> last'.arg.team]) \in drafted_players)
          => /\ last'.ret = <<None, IF current_pick < Len(draft_order)
                                    THEN ErrDrafted ELSE ErrComplete>>
             /\ UNCHANGED pick_state
       /\ NoKeyTwice']_vars

\* a differently-cased copy of an already drafted player was just refused
\* while slots were still open
C2_Witness ==
    /\ last.op = "add_pick"
    /\ last.ret = <<None, ErrDrafted>>
    /\ current_pick < Len(draft_order)
    /\ \E i \in DOMAIN all_picks :
          /\ all_picks[i].player_name # last.arg.name
          /\ IdentityKey(all_picks[i]) =
                IdentityKey([player_name |-> last.arg.name, player_team |-> last.arg.team])

\* C3: after every operation drafted_players is exactly the set of
\* lower-cased keys of the picks in all_picks.
C3_ExclusionSetInSync ==
    drafted_players = {JoinedKey(all_picks[i]) : i \in DOMAIN all_picks}

\* an undo has just removed a pick and another pick is still recorded
C3_Witness ==
    /\ last.op = "undo_last_pick"
    /\ last.ret = TRUE
    /\ Len(all_picks) >= 1
    /\ Cardinality(drafted_players) = Len(all_picks)

\* C4: draft_order has length n * r, and its k-th slice of n slots is the
\* base order when k is even and the reversed base order when k is odd.
C4_SnakeOrder ==
    LET n == Len(base_draft_order)
        r == num_rounds
    IN /\ Len(draft_order) = n * r
       /\ \A k \in 0..(r - 1) :
             SubSeq(draft_order, k * n + 1, (k + 1) * n) =
                (IF k % 2 = 0 THEN base_draft_order ELSE Reverse(base_draft_order))

\* [A,B,C] with 3 rounds gives [A,B,C,C,B,A,A,B,C]
C4_Witness ==
    /\ base_draft_order = <<"A", "B", "C">>
    /\ num_rounds = 3
    /\ draft_order = <<"A", "B", "C", "C", "B", "A", "A", "B", "C">>

\* C7: current_pick lies in [0, len(draft_order)] and equals len(all_picks).
C7_PickIndexInRange ==
    /\ current_pick \in 0..Len(draft_order)
    /\ current_pick = Len(all_picks)

\* every slot of a draft of at least two slots is filled, the last one by
\* the add_pick just made, and the player named "A" is among the picks
C7_Witness ==
    /\ Len(draft_order) >= 2
    /\ current_pick = Len(draft_order)
    /\ last.op = "add_pick"
    /\ last.ret[2] = None
    /\ \E i \in DOMAIN all_picks : all_picks[i].player_name = <<"A">>

\* C8: an add_pick when current_pick >= len(draft_order) returns the
\* draft-complete error and leaves the whole DraftManager state unchanged.
C8_CompleteRejected ==
    [][(IsAddPick /\ current_pick >= Len(draft_order))
          => (last'.ret = <<None, ErrComplete>> /\ UNCHANGED dm_vars)]_vars

\* base order [A,B], 1 round: the third commit has just failed, current_pick is 2
C8_Witness ==
    /\ base_draft_order = <<"A", "B">>
    /\ num_rounds = 1
    /\ Len(all_picks) = 2
    /\ current_pick = 2
    /\ last.op = "add_pick"
    /\ last.ret = <<None, ErrComplete>>

\* C9 as stated: an add_pick while is_active is false fails and records no
\* pick: all_picks, teams, drafted_players and current_pick are unchanged.
C9_AsStated ==
    [][(IsAddPick /\ ~is_active)
          => (last'.ret[2] # None /\ UNCHANGED pick_state)]_vars

\* C10: a successful add_pick immediately followed by undo_last_pick restores
\* current_pick, all_picks, drafted_players and the teams to their values
\* before the add_pick; undo_last_pick on an empty all_picks returns False
\* and changes nothing.
C10_UndoInvertsCommit ==
    [][/\ (last.op = "add_pick" /\ last.ret[2] = None /\ IsUndo)
          => (last'.ret = TRUE /\ pick_state' = last.before)
       /\ (IsUndo /\ all_picks = <<>>)
          => (last'.ret = FALSE /\ UNCHANGED dm_vars)]_vars

\* an undo has just reversed the commit made right before it, with an
\* earlier pick still in place
C10_Witness ==
    /\ last.op = "undo_last_pick"
    /\ last.ret = TRUE
    /\ last.arg.op = "add_pick"
    /\ last.arg.ret[2] = None
    /\ Len(all_picks) = 1

\* the roster entry add_pick makes of a pick of all_picks
RosterEntry(pick) ==
    [player_name |-> pick.player_name, player_team |-> pick.player_team,
     position |-> pick.position, pick_number |-> pick.pick_number,
     round |-> pick.round]

\* C11: the rosters partition all_picks: every roster entry is exactly one
\* pick of all_picks, owned by the roster's user, and every pick of
\* all_picks is exactly one entry of its owner's roster and of no other.
C11_RostersPartition ==
    /\ \A u \in DOMAIN teams : \A i \in DOMAIN teams[u].players :
          Cardinality({k \in DOMAIN all_picks :
                          /\ RosterEntry(all_picks[k]) = teams[u].players[i]
                          /\ all_picks[k].user_id = u}) = 1
    /\ \A k \in DOMAIN all_picks :
          /\ all_picks[k].user_id \in DOMAIN teams
          /\ \A u \in DOMAIN teams :
                Cardinality({i \in DOMAIN teams[u].players :
                                teams[u].players[i] = RosterEntry(all_picks[k])})
                   = (IF u = all_picks[k].user_id THEN 1 ELSE 0)

\* right after an undo, two users hold one pick each and a third holds none
C11_Witness ==
    /\ last.op = "undo_last_pick"
    /\ last.ret = TRUE
    /\ Len(all_picks) = 2
    /\ \E u, v, w \in DOMAIN teams :
          /\ u # v /\ Len(teams[u].players) = 1 /\ Len(teams[v].players) = 1
          /\ w \notin {u, v} /\ teams[w].players = <<>>

\* C12: the pick at position k of all_picks (from 1) has pick_number k.
C12_PickNumbersContiguous ==
    \A k \in DOMAIN all_picks : all_picks[k].pick_number = k

\* an undo has just removed the third pick: picks 1 and 2 remain
C12_Witness ==
    /\ last.op = "undo_last_pick"
    /\ last.ret = TRUE
    /\ last.arg.op = "add_pick"
    /\ Len(all_picks) = 2
    /\ current_pick = 2

\* C14 as stated: get_current_user is draft_order[current_pick] when the
\* index is in range and the draft is active, and None otherwise;
\* get_next_user is the same at current_pick + 1.
C14_AsStated ==
    /\ get_current_user =
          (IF is_active /\ current_pick < Len(draft_order)
           THEN draft_order[current_pick + 1] ELSE None)
    /\ get_next_user =
          (IF is_active /\ current_pick + 1 < Len(draft_order)
           THEN draft_order[current_pick + 2] ELSE None)

----------------------------------------------------------------------------
(* Properties of the bot, checked under BotSpec *)

\* C1 as stated: no board yields two committed picks, whatever the
\* interleaving of the on_reaction_add coroutines.
C1_AsStated == board_picks <= 1

\* C5: an event whose user is not the user on the clock changes nothing of
\* the draft (nor of the coroutines in flight).  On the current board of an
\* active draft it is answered as a wrong turn; otherwise it is dropped
\* because the draft is inactive or the board is stale.
C5_WrongTurnRejected ==
    (last.op = "on_reaction_add" /\ ~last.arg.on_clock)
       => /\ ~last.arg.changed
          /\ last.ret \in {"Inactive", "Stale", "WrongTurn"}
          /\ (is_active /\ last.arg.current) => last.ret = "WrongTurn"

\* a pick has been made, the draft goes on, and the event just delivered on
\* its current board, by a user off the clock, was answered as a wrong turn
C5_Witness ==
    /\ last.op = "on_reaction_add"
    /\ ~last.arg.on_clock
    /\ last.ret = "WrongTurn"
    /\ is_active
    /\ current_draft_message # NoMessage
    /\ current_pick >= 1
    /\ get_current_user # None

\* C6 as stated: once a select event has been processed to the end, the
\* same event delivered again changes nothing of the draft.
C6_AsStated ==
    (last.op = "on_reaction_add" /\ last.arg.replay) => ~last.arg.changed

\* C15: an !enddraft that ends a draft clears is_active, channel_id and
\* current_draft_message and leaves base_draft_order, draft_order,
\* num_rounds, current_pick, all_picks, teams and drafted_players unchanged.
C15_EndDraftFrame ==
    [][(last'.op = "enddraft" /\ last'.ret = "ended")
          => /\ ~is_active'
             /\ channel_id' = None
             /\ current_draft_message' = NoMessage
             /\ UNCHANGED <<base_draft_order, draft_order, num_rounds, current_pick,
                            all_picks, teams, drafted_players>>]_vars

\* a draft with a pick made and slots still open has just been ended: its
\* pick is still in all_picks and in its owner's roster
C15_Witness ==
    /\ last.op = "enddraft"
    /\ last.ret = "ended"
    /\ ~is_active
    /\ current_draft_message = NoMessage
    /\ all_picks # <<>>
    /\ current_pick < Len(draft_order)
    /\ teams[all_picks[1].user_id].players # <<>>

\* C16: the pick at position k of all_picks is owned by the user of slot k
\* of draft_order, and the user whose event made a pick was the user on
\* the clock.
C16_SlotOwnership ==
    /\ \A k \in DOMAIN all_picks :
          k <= Len(draft_order) /\ all_picks[k].user_id = draft_order[k]
    /\ (last.op = "on_reaction_add" /\ last.ret = "picked") => last.arg.on_clock

\* the snake has turned: the second and third picks are one user's, the
\* first is the other's, and the third was just made
C16_Witness ==
    /\ last.op = "on_reaction_add"
    /\ last.ret = "picked"
    /\ Len(all_picks) = 3
    /\ all_picks[2].user_id = all_picks[3].user_id
    /\ all_picks[1].user_id # all_picks[2].user_id

\* C17 as stated: once the last slot is filled, no new board is presented,
\* no event changes the draft (the pick that filled the slot aside), and
\* the handler that sends the completion message leaves the draft inactive.
C17_AsStated ==
    (draft_order # <<>> /\ current_pick >= Len(draft_order))
       => /\ last.op # "board_sent"
          /\ (last.op = "on_reaction_add" /\ last.ret # "picked") => ~last.arg.changed
          /\ last.op = "complete_sent" => ~is_active

\* C18: a switch-category event of the user on the clock changes
\* current_position and nothing else: current_pick, all_picks, teams,
\* drafted_players, the orders, the board, the coroutines in flight and
\* the user on the clock are unchanged.
C18_SwitchFrame ==
    [][(last'.op = "on_reaction_add" /\ last'.ret = "switched")
          => /\ last'.arg.on_clock
             /\ current_position' \in Range(POSITION_EMOJIS)
             /\ UNCHANGED <<current_pick, all_picks, teams, drafted_players,
                            base_draft_order, draft_order, num_rounds, is_active,
                            channel_id, current_draft_message, bot_vars>>
             /\ get_current_user' = get_current_user]_vars

\* after a pick, the user on the clock has just switched the board to RB
C18_Witness ==
    /\ last.op = "on_reaction_add"
    /\ last.ret = "switched"
    /\ last.arg.changed
    /\ current_position = "RB"
    /\ current_pick >= 1
    /\ is_active

\* C19: on the current board of an active draft, a number of the user on
\* the clock is answered as an invalid selection exactly when its index is
\* at least the number of players listed (every number when none is
\* listed), and an event answered so changes nothing.
C19_InvalidSelection ==
    /\ (is_active /\ current_draft_message # NoMessage /\ get_current_user # None)
          => \A i \in DOMAIN NUMBER_EMOJIS :
                (i - 1 >= Len(listed_players))
                   <=> (reaction_outcome(current_draft_message, get_current_user,
                                         NUMBER_EMOJIS[i]) = "InvalidSelection")
    /\ (last.op = "on_reaction_add" /\ last.ret = "InvalidSelection")
          => (last.arg.on_clock /\ ~last.arg.changed)

\* the user on the clock has just reacted with a number beyond the end of
\* a board that lists players
C19_Witness ==
    /\ last.op = "on_reaction_add"
    /\ last.ret = "InvalidSelection"
    /\ is_active
    /\ listed_players # <<>>
    /\ current_pick >= 1
    /\ get_current_user # None

\* on_reaction_add: current_round = draft_manager.get_current_round(), read
\* after add_pick has advanced current_pick; in the state that follows a
\* committed pick it is the round of the pick's announcement
announced_round == get_current_round

\* C22 as stated: no select event from a board rendered before a !startdraft
\* commits a pick in the draft that !startdraft started.  Right after the
\* command's start_draft, current_draft_message is what it was before the
\* command, so a pick committed by the next step comes from such a board.
C22_AsStated ==
    [][(last.op = "startdraft" /\ last.ret = "started")
          => ~(last'.op = "on_reaction_add" /\ last'.ret = "picked")]_vars

\* C23 as stated: the round announced for a pick that was just committed is
\* the round recorded in that pick.
C23_AsStated ==
    (last.op = "on_reaction_add" /\ last.ret = "picked")
       => announced_round = all_picks[Len(all_picks)].round

----------------------------------------------------------------------------
(* Properties of the commands, checked under OrderSpec *)

\* C13 as stated: once a draft has been started, whatever commands and
\* events follow, len(draft_order) = len(base_draft_order) * num_rounds.
C13_AsStated ==
    num_rounds > 0 => Len(draft_order) = Len(base_draft_order) * num_rounds

----------------------------------------------------------------------------
(* Properties of the boards, checked under BoardSpec *)

\* C21 as stated: the player a select event commits is the player the board
\* of the event displayed at the event's number.
C21_AsStated ==
    (last.op = "on_reaction_add" /\ last.ret = "picked")
       => last.arg.committed = last.arg.shown

----------------------------------------------------------------------------
(* Properties of the bot under fair scheduling, checked under LiveSpec *)

\* a draft under way: active, with a slot left
Incomplete == is_active /\ draft_order # <<>> /\ current_pick < Len(draft_order)

\* the draft is over with a pick in every slot, num_rounds picks per user
Complete ==
    /\ ~is_active
    /\ draft_order # <<>>
    /\ current_pick = Len(draft_order)
    /\ Len(all_picks) = Len(base_draft_order) * num_rounds
    /\ \A u \in Range(base_draft_order) : Len(teams[u].players) = num_rounds

\* the draft was ended by !enddraft
Ended == ~is_active /\ channel_id = None

\* a !startdraft has just started a draft anew
Restarted == last.op = "startdraft" /\ last.ret = "started"

\* C24 as stated: with a player in the catalog for every slot, a draft under
\* way always has a position with a player to select, and (unless it is
\* ended or started anew) it eventually is complete, with a pick in every
\* slot and num_rounds picks per user.
C24_AsStated ==
    /\ [](Incomplete => \E position \in DOMAIN players_by_position :
                            get_top_available(position, drafted_players, TOP_LIMIT) # <<>>)
    /\ Incomplete ~> (Complete \/ Ended \/ Restarted)

----------------------------------------------------------------------------
(* Properties of the RosterManager, checked under TopSpec *)

\* the places, in the roster of a position, of the players whose
\* lower-cased key is not among the drafted
Qualifying(position, drafted) ==
    {i \in DOMAIN players_at(position) :
        str_lower(players_at(position)[i].name) \o <<"|">>
           \o str_lower(players_at(position)[i].team) \notin drafted}

\* C20: get_top_available returns the first `limit` players, in roster
\* order, of the position whose lower-cased key is not among the drafted:
\* its j-th player is the j-th qualifying player; it is empty when none
\* qualifies, and holds no drafted player and no player of another position.
C20_TopAvailable ==
    last.op = "get_top_available" =>
        LET position == last.arg.position
            Q == Qualifying(position, last.arg.drafted)
            result == last.ret
        IN /\ Len(result) = (IF Cardinality(Q) < last.arg.limit
                             THEN Cardinality(Q) ELSE last.arg.limit)
           /\ \A j \in DOMAIN result :
                 /\ result[j] = players_at(position)[
                        CHOOSE i \in Q : Cardinality({q \in Q : q <= i}) = j]
                 /\ result[j].position = position
                 /\ player_key(result[j].name, result[j].team) \notin last.arg.drafted

\* a call that skipped a drafted player at the head of the roster and
\* stopped at its limit of two with a third player qualifying
C20_Witness ==
    /\ last.op = "get_top_available"
    /\ last.arg.limit = 2
    /\ Len(last.ret) = 2
    /\ 1 \notin Qualifying(last.arg.position, last.arg.drafted)
    /\ Cardinality(Qualifying(last.arg.position, last.arg.drafted)) >= 3

====
